---- MODULE Spec2Model ----
(***************************************************************************)
(* Model of src/app.py: the analysis part of the tumour-volume script      *)
(* (lines 147-348).  One run of the script is one behaviour: the position  *)
(* of the run is pc, the script's variables are the state.                 *)
(*                                                                         *)
(* Numbers.  Volumes and days are integers here.  Every float the script   *)
(* computes from them (a mean, a TGI, a CI) is kept as the exact reduced   *)
(* fraction it rounds, or as one of the IEEE specials +inf, -inf, nan that *)
(* numpy float64 division by zero produces (numpy warns and returns        *)
(* inf/nan, it does not raise).  Volumes are >= 0, so every zero divisor   *)
(* is +0.0.  float64 rounding is not computed.  It matters in one place:   *)
(* E_bliss / TGI_combo with TGI_combo == 0 and an E_bliss whose exact      *)
(* value is 0.  When the operands of E_bliss are exact in float64 (their   *)
(* denominators are powers of two) E_bliss is 0.0 and the quotient is nan; *)
(* otherwise E_bliss may be a rounding residue of either sign, and the     *)
(* quotient is nan, +inf or -inf: the model admits all three.              *)
(***************************************************************************)
EXTENDS Integers, Sequences, FiniteSets

(***************************************************************************)
(* float64 values: [k, n, d] with k the kind, n/d the reduced fraction.    *)
(***************************************************************************)
Abs(x) == IF x < 0 THEN -x ELSE x

RECURSIVE GCD(_, _)
GCD(a, b) == IF b = 0 THEN a ELSE GCD(b, a % b)

Fin(n, d) ==
    LET s == IF d < 0 THEN -1 ELSE 1
        g == GCD(Abs(n), Abs(d))
    IN  [k |-> "fin", n |-> (s * n) \div g, d |-> (s * d) \div g]

PInf == [k |-> "inf", n |-> 1, d |-> 0]
NInf == [k |-> "inf", n |-> -1, d |-> 0]
NaN == [k |-> "nan", n |-> 0, d |-> 0]
One == Fin(1, 1)
Hundred == Fin(100, 1)

IsNaN(x) == x.k = "nan"
IsInf(x) == x.k = "inf"
IsFinite(x) == x.k = "fin"
Sgn(x) == IF x.n > 0 THEN 1 ELSE IF x.n < 0 THEN -1 ELSE 0

FNeg(x) == [x EXCEPT !.n = -x.n]

FAdd(x, y) ==
    IF IsNaN(x) \/ IsNaN(y) THEN NaN
    ELSE IF IsInf(x) THEN (IF IsInf(y) /\ y.n # x.n THEN NaN ELSE x)
    ELSE IF IsInf(y) THEN y
    ELSE Fin(x.n * y.d + y.n * x.d, x.d * y.d)

FSub(x, y) == FAdd(x, FNeg(y))

FMul(x, y) ==
    IF IsNaN(x) \/ IsNaN(y) THEN NaN
    ELSE IF IsInf(x) \/ IsInf(y)
         THEN (IF Sgn(x) * Sgn(y) = 0 THEN NaN
               ELSE IF Sgn(x) * Sgn(y) > 0 THEN PInf ELSE NInf)
    ELSE Fin(x.n * y.n, x.d * y.d)

\* x / y as numpy float64 does it: a zero divisor gives inf or nan.
FDiv(x, y) ==
    IF IsNaN(x) \/ IsNaN(y) THEN NaN
    ELSE IF IsInf(x) THEN (IF IsInf(y) THEN NaN
                           ELSE IF Sgn(x) * (IF y.n < 0 THEN -1 ELSE 1) > 0
                                THEN PInf ELSE NInf)
    ELSE IF IsInf(y) THEN Fin(0, 1)
    ELSE IF y.n = 0 THEN (IF x.n = 0 THEN NaN
                          ELSE IF x.n > 0 THEN PInf ELSE NInf)
    ELSE Fin(x.n * y.d, x.d * y.n)

RECURSIVE IsPow2(_)
IsPow2(d) == IF d <= 1 THEN d = 1 ELSE d % 2 = 0 /\ IsPow2(d \div 2)

\* x is finite and float64 holds it exactly (the integers here are small)
Dyadic(x) == IsFinite(x) /\ IsPow2(x.d)

\* the float64 a / b is the exact quotient: a, b and a / b are all exact
ExactQuotient(a, b) == Dyadic(a) /\ Dyadic(b) /\ Dyadic(FDiv(a, b))

\* The values float64 x / y can have, x being a computed value kept as its
\* exact fraction: when x cancels to 0 over a zero divisor and its operands
\* were not exact, float64 x is 0.0 or a residue of either sign.
FDivRounded(x, y, exact) ==
    IF IsFinite(x) /\ x.n = 0 /\ IsFinite(y) /\ y.n = 0 /\ ~exact
    THEN {NaN, PInf, NInf}
    ELSE {FDiv(x, y)}

\* x < y; every comparison with nan is False.
FLt(x, y) ==
    IF IsNaN(x) \/ IsNaN(y) THEN FALSE
    ELSE IF IsInf(x) THEN x.n < 0 /\ ~(IsInf(y) /\ y.n < 0)
    ELSE IF IsInf(y) THEN y.n > 0
    ELSE x.n * y.d < y.n * x.d

FLe(x, y) == ~IsNaN(x) /\ ~IsNaN(y) /\ ~FLt(y, x)
FGt(x, y) == FLt(y, x)
Zero == Fin(0, 1)

(***************************************************************************)
(* The table: a DataFrame is the sequence of its rows, a row is            *)
(* [mouse_id, day, group, volume]; a row's index label is its position.    *)
(***************************************************************************)
Row(m, d, g, v) == [mouse_id |-> m, day |-> d, group |-> g, volume |-> v]

RECURSIVE SumSeq(_)
SumSeq(s) == IF s = <<>> THEN 0 ELSE Head(s) + SumSeq(Tail(s))

Min(S) == CHOOSE x \in S : \A y \in S : x <= y
Max(S) == CHOOSE x \in S : \A y \in S : y <= x
Range(s) == {s[i] : i \in 1..Len(s)}

MiceOf(df) == {df[i].mouse_id : i \in 1..Len(df)}
GroupsOf(df) == {df[i].group : i \in 1..Len(df)}

\* df[df["group"] == g]["volume"].values
VolumesOf(df, g) ==
    LET sel == SelectSeq(df, LAMBDA r : r.group = g)
    IN  [i \in 1..Len(sel) |-> sel[i].volume]

\* numpy mean of an integer array
Mean(vals) == Fin(SumSeq(vals), Len(vals))

\* df.groupby("group")["volume"].mean(): a Series indexed by the groups present
MeanByGroup(df) == [g \in GroupsOf(df) |-> Mean(VolumesOf(df, g))]

(***************************************************************************)
(* Endpoint-day selection (lines 157-176).                                 *)
(***************************************************************************)
\* The index labels of mouse m's rows.
RowsOfMouse(df, m) == {i \in 1..Len(df) : df[i].mouse_id = m}

\* g.sort_values("day"): the orders of the labels S that are ascending in day.
\* pandas sorts with quicksort, which is not stable, so rows of equal day may
\* come out in either order.
RECURSIVE SortOrders(_, _)
SortOrders(df, S) ==
    IF S = {} THEN {<<>>}
    ELSE UNION {{<<x>> \o rest : rest \in SortOrders(df, S \ {x})} :
                x \in {y \in S : \A z \in S : df[y].day <= df[z].day}}

\* Every way the loop can see the mice M: one sorted order per mouse.
RECURSIVE OrdersOver(_, _)
OrdersOver(df, M) ==
    IF M = {} THEN {[m \in {} |-> <<>>]}
    ELSE LET m0 == Min(M)
         IN  {[m \in M |-> IF m = m0 THEN o ELSE f[m]] :
                 f \in OrdersOver(df, M \ {m0}),
                 o \in SortOrders(df, RowsOfMouse(df, m0))}

GroupedOrders(df) == OrdersOver(df, MiceOf(df))

\* reached = g_sorted["volume"] >= endpoint_threshold, by position (from 1)
Reached(df, gs, T) == {p \in 1..Len(gs) : df[gs[p]].volume >= T}

\* PrevDay with the day of the crossing itself instead of the one before it
PrevDayAtCrossing(df, gs, T) ==
    IF Reached(df, gs, T) # {}
    THEN LET pos == Min(Reached(df, gs, T))
         IN  IF pos > 1 THEN <<df[gs[pos]].day>> ELSE <<>>
    ELSE <<>>

\* The mouse's contribution to target_days: <<prev_day>> or nothing.
\* pos is 0-based in the script, so pos > 0 is position > 1 here.
PrevDay(df, gs, T) ==
    IF Reached(df, gs, T) # {}
    THEN LET pos == Min(Reached(df, gs, T))
         IN  IF pos > 1 THEN <<df[gs[pos - 1]].day>> ELSE <<>>
    ELSE <<>>

\* The loop over grouped_mouse, in ascending mouse_id (groupby sorts its keys).
RECURSIVE TargetDaysOver(_, _, _, _)
TargetDaysOver(df, gm, T, M) ==
    IF M = {} THEN <<>>
    ELSE LET m == Min(M)
         IN  PrevDay(df, gm[m], T) \o TargetDaysOver(df, gm, T, M \ {m})

TargetDays(df, gm, T) == TargetDaysOver(df, gm, T, DOMAIN gm)

\* EarliestDay with the latest candidate instead of the earliest
EarliestDayLatest(td) == Max(Range(td))

\* earliest_day = min(target_days)
EarliestDay(td) == Min(Range(td))

\* filtered_df[filtered_df["day"] == earliest_day]
DayRows(df, day) == SelectSeq(df, LAMBDA r : r.day = day)

(***************************************************************************)
(* TGI, Bliss, CI (lines 190-221, 245-281).                                *)
(***************************************************************************)
\* TGIPercent clamped at 0 from below
TGIPercentClamped(m, mean_control) ==
    LET t == FMul(FSub(One, FDiv(m, mean_control)), Hundred)
    IN  IF FLt(t, Zero) THEN Zero ELSE t

\* (1.0 - m / mean_control) * 100.0
TGIPercent(m, mean_control) == FMul(FSub(One, FDiv(m, mean_control)), Hundred)

TGIByGroup(mbg, ctrl) == [g \in DOMAIN mbg |-> TGIPercent(mbg[g], mbg[ctrl])]

\* 1 - mean / mean_ctrl
TGIFraction(m, mean_ctrl) == FSub(One, FDiv(m, mean_ctrl))

\* EA + EB - EA * EB
Bliss(EA, EB) == FSub(FAdd(EA, EB), FMul(EA, EB))

ComboCandidates == <<"Combo", "A+B", "DrugAB", "AB">>
NoGroup == "<none>"

\* line 245: the check made before the alias probe
ComboPrecheckFails(groups) == ("Combo" \notin groups) /\ ("A+B" \notin groups)

\* lines 249-253: the first candidate present, else None
RECURSIVE ProbeFrom(_, _)
ProbeFrom(groups, i) ==
    IF i > Len(ComboCandidates) THEN NoGroup
    ELSE IF ComboCandidates[i] \in groups THEN ComboCandidates[i]
    ELSE ProbeFrom(groups, i + 1)

DetectCombo(groups) == ProbeFrom(groups, 1)

(***************************************************************************)
(* Bootstrap (lines 312-348).                                              *)
(***************************************************************************)
\* np.random.choice(a, size=len(a), replace=True): every outcome
Resamples(a) ==
    {[i \in 1..Len(a) |-> a[pick[i]]] : pick \in [1..Len(a) -> 1..Len(a)]}

\* the means the resamples of a can have
ResampledMeans(a) == {Mean(r) : r \in Resamples(a)}

\* Retained with tC >= 0 instead of tC > 0
RetainedFromZero(tC) == FLe(Zero, tC)

\* tC > 0
Retained(tC) == FGt(tC, Zero)

RECURSIVE InsertSorted(_, _)
InsertSorted(s, x) ==
    IF s = <<>> THEN <<x>>
    ELSE IF FLe(x, Head(s)) THEN <<x>> \o s
    ELSE <<Head(s)>> \o InsertSorted(Tail(s), x)

RECURSIVE SortNums(_)
SortNums(s) == IF s = <<>> THEN <<>> ELSE InsertSorted(SortNums(Tail(s)), Head(s))

\* np.percentile(a, q) with q = q40 * 2.5, linear interpolation:
\* the virtual index is (n - 1) * q40 / 40.
Percentile(a, q40) ==
    LET s == SortNums(a)
        h == (Len(s) - 1) * q40
        lo == h \div 40
        fr == Fin(h % 40, 40)
    IN  IF h % 40 = 0 THEN s[lo + 1]
        ELSE FAdd(s[lo + 1], FMul(fr, FSub(s[lo + 2], s[lo + 1])))

\* len(CI_list) > 10
MinValid == 10
EnoughSamples(lst) == Len(lst) > MinValid

(***************************************************************************)
(* The state of a run.                                                     *)
(***************************************************************************)
VARIABLES
    filtered_df,        \* the filtered table (line 52/58)
    endpoint_threshold, \* sidebar input (line 79)
    control_group,      \* sidebar input (line 64)
    drugA_group,        \* sidebar input (line 69)
    drugB_group,        \* sidebar input (line 72)
    n_boot,             \* sidebar input (line 296)
    pc,                 \* where the run is
    out,                \* what the run has reported so far (st.info/error/markdown)
    assigned,           \* the script variables that have been assigned
    g_sorted,           \* per mouse, its rows' labels sorted by day (line 163)
    target_days,        \* line 159
    earliest_day,       \* line 176
    day_df,             \* line 183
    tgi_by_group,       \* line 151 / 198
    bliss_value,        \* line 152 / 221
    combo_group,        \* line 249
    TGI_combo,          \* line 275
    CI,                 \* line 281
    boot_i,             \* iterations of the bootstrap loop done (line 314)
    tC,                 \* line 330, of the last iteration
    CI_list,            \* line 312
    CI_low,             \* line 339
    CI_high             \* line 340

inputs == <<filtered_df, endpoint_threshold, control_group, drugA_group,
            drugB_group, n_boot>>
selvars == <<g_sorted, target_days, earliest_day, day_df>>
tgivars == <<tgi_by_group, bliss_value>>
civars == <<combo_group, TGI_combo, CI>>
bootvars == <<boot_i, tC, CI_list, CI_low, CI_high>>
vars == <<inputs, pc, out, assigned, selvars, tgivars, civars, bootvars>>

\* Python's None, for a variable that holds a float otherwise
None == [k |-> "none", n |-> 0, d |-> 0]

(***************************************************************************)
(* The inputs the runs are checked on.                                     *)
(***************************************************************************)
MaxDay == 2     \* days are 0..MaxDay
MaxVol == 1     \* volumes are 0..MaxVol in the timeline tables
NBoot == 12     \* bootstrap iterations (the widget allows 200..10000)

Days == 0..MaxDay
Absent == 0 - 1    \* marks a day without a measurement

\* The rows of one mouse from f: day -> volume or Absent, days descending from d.
RECURSIVE Timeline(_, _, _, _)
Timeline(m, g, f, d) ==
    IF d < 0 THEN <<>>
    ELSE (IF f[d] = Absent THEN <<>> ELSE <<Row(m, d, g, f[d])>>)
         \o Timeline(m, g, f, d - 1)

Input(df, T, c, a, b) == [df |-> df, T |-> T, c |-> c, a |-> a, b |-> b]

\* Two mice over all the days: mouse 1 may miss days and has any volume,
\* mouse 2 (control) is measured every day, at volume 0 or MaxVol.
TimelineInputs ==
    {Input(Timeline(1, "DrugA", f1, MaxDay) \o Timeline(2, "Vehicle", f2, MaxDay),
           T, "Vehicle", "DrugA", "DrugB") :
        f1 \in [Days -> Absent..MaxVol], f2 \in [Days -> {0, MaxVol}], T \in 0..MaxVol}

\* One mouse measured three times on days 0..1: days repeat within the mouse.
RepeatedDayInputs ==
    {Input(rows, 2, "Vehicle", "DrugA", "DrugB") :
        rows \in [1..3 -> {Row(1, d, "Vehicle", v) : d \in 0..1, v \in {0, 2}}]}

\* One mouse per group on day 0, each group present or not, one mouse that
\* crosses the threshold 3 on day 1, so that day 0 is the comparison day, and
\* one mouse of a group that is measured on day 1 only.
MainGroups == <<"Vehicle", "DrugA", "DrugB", "Combo">>
AliasGroups == <<"A+B", "DrugAB", "AB">>

RECURSIVE GroupRows(_, _, _, _)
GroupRows(labels, f, firstId, i) ==
    IF i > Len(labels) THEN <<>>
    ELSE (IF f[labels[i]] = Absent THEN <<>>
          ELSE <<Row(firstId + i, 0, labels[i], f[labels[i]])>>)
         \o GroupRows(labels, f, firstId, i + 1)

GroupInputs ==
    {Input(<<Row(9, 0, "Untreated", 0), Row(9, 1, "Untreated", 3),
             Row(8, 1, "Late", 0)>>
           \o GroupRows(MainGroups, f, 0, 1) \o GroupRows(AliasGroups, h, 4, 1),
           3, "Vehicle", "DrugA", "DrugB") :
        f \in [Range(MainGroups) -> Absent..(MaxVol + 1)],
        h \in [Range(AliasGroups) -> {Absent, 1}]}

\* Two combo mice, so that the resampled combo mean varies; the control mouse
\* crosses the threshold 5 on day 1.
ResampleInputs ==
    {Input(<<Row(1, 0, "Vehicle", c), Row(1, 1, "Vehicle", 5),
             Row(2, 0, "DrugA", 1), Row(3, 0, "DrugB", 2),
             Row(4, 0, "Combo", x[1]), Row(5, 0, "Combo", x[2])>>,
           5, "Vehicle", "DrugA", "DrugB") :
        c \in {2, 3}, x \in {<<1, 1>>, <<1, 3>>, <<3, 3>>}}

\* Control 6, Drug A 4, Drug B 9, combo 6 on day 0: 4/6 is not exact in
\* float64, E_bliss cancels to 0 in exact arithmetic and TGI_combo is 0.
RoundingInputs ==
    {Input(<<Row(9, 0, "Untreated", 0), Row(9, 1, "Untreated", 10),
             Row(1, 0, "Vehicle", 6), Row(2, 0, "DrugA", 4),
             Row(3, 0, "DrugB", 9), Row(4, 0, "Combo", 6)>>,
           10, "Vehicle", "DrugA", "DrugB")}

EmptyInput == Input(<<>>, 1, "Vehicle", "DrugA", "DrugB")

Inputs ==
    TimelineInputs \cup RepeatedDayInputs \cup GroupInputs \cup ResampleInputs
    \cup RoundingInputs \cup {EmptyInput}

Init ==
    /\ \E inp \in Inputs :
        /\ filtered_df = inp.df
        /\ endpoint_threshold = inp.T
        /\ control_group = inp.c
        /\ drugA_group = inp.a
        /\ drugB_group = inp.b
    /\ n_boot = NBoot
    /\ pc = "endpoint"
    /\ out = <<>>
    /\ assigned = {"tgi_by_group", "bliss_value"}
    /\ g_sorted = <<>>
    /\ target_days = <<>>
    /\ earliest_day = 0
    /\ day_df = <<>>
    /\ tgi_by_group = [g \in {} |-> Zero]
    /\ bliss_value = None
    /\ combo_group = NoGroup
    /\ TGI_combo = None
    /\ CI = None
    /\ boot_i = 0
    /\ tC = None
    /\ CI_list = <<>>
    /\ CI_low = None
    /\ CI_high = None

Report(tag) == out' = Append(out, tag)

(***************************************************************************)
(* Endpoint section (lines 154-183, 236-237).                              *)
(***************************************************************************)
\* line 154-155: the filtered table is empty
NoData ==
    /\ pc = "endpoint"
    /\ filtered_df = <<>>
    /\ Report("NoData")
    /\ pc' = "ci"
    /\ UNCHANGED <<inputs, assigned, selvars, tgivars, civars, bootvars>>

\* lines 157-183: some mouse gave a candidate day
SelectDay ==
    /\ pc = "endpoint"
    /\ filtered_df # <<>>
    /\ \E gm \in GroupedOrders(filtered_df) :
        LET td == TargetDays(filtered_df, gm, endpoint_threshold)
        IN  /\ td # <<>>
            /\ g_sorted' = gm
            /\ target_days' = td
            /\ earliest_day' = EarliestDay(td)
            /\ day_df' = DayRows(filtered_df, EarliestDay(td))
    /\ assigned' = assigned \cup {"target_days", "earliest_day", "day_df"}
    /\ Report("ComparisonDay")
    /\ pc' = "tgi"
    /\ UNCHANGED <<inputs, tgivars, civars, bootvars>>

\* lines 157-174, 236-237: no mouse gave a candidate day
NoTargetDay ==
    /\ pc = "endpoint"
    /\ filtered_df # <<>>
    /\ \E gm \in GroupedOrders(filtered_df) :
        /\ TargetDays(filtered_df, gm, endpoint_threshold) = <<>>
        /\ g_sorted' = gm
    /\ target_days' = <<>>
    /\ assigned' = assigned \cup {"target_days"}
    /\ Report("NoEndpointReached")
    /\ pc' = "ci"
    /\ UNCHANGED <<inputs, earliest_day, day_df, tgivars, civars, bootvars>>

(***************************************************************************)
(* TGI and Bliss (lines 186-234).                                          *)
(***************************************************************************)
\* lines 186-188
TGINoControl ==
    /\ pc = "tgi"
    /\ control_group \notin GroupsOf(day_df)
    /\ Report("MissingControl")
    /\ pc' = "ci"
    /\ UNCHANGED <<inputs, assigned, selvars, tgivars, civars, bootvars>>

\* lines 190-195
TGIDegenerate ==
    /\ pc = "tgi"
    /\ control_group \in GroupsOf(day_df)
    /\ FLe(MeanByGroup(day_df)[control_group], Zero)
    /\ Report("DegenerateControl")
    /\ pc' = "ci"
    /\ UNCHANGED <<inputs, assigned, selvars, tgivars, civars, bootvars>>

\* lines 190-204
TGICompute ==
    /\ pc = "tgi"
    /\ control_group \in GroupsOf(day_df)
    /\ ~FLe(MeanByGroup(day_df)[control_group], Zero)
    /\ tgi_by_group' = TGIByGroup(MeanByGroup(day_df), control_group)
    /\ Report("TGITable")
    /\ pc' = "bliss"
    /\ UNCHANGED <<inputs, assigned, selvars, bliss_value, civars, bootvars>>

\* lines 211-229
BlissCompute ==
    /\ pc = "bliss"
    /\ drugA_group \in DOMAIN tgi_by_group
    /\ drugB_group \in DOMAIN tgi_by_group
    /\ bliss_value' = FMul(Bliss(FDiv(tgi_by_group[drugA_group], Hundred),
                                 FDiv(tgi_by_group[drugB_group], Hundred)),
                           Hundred)
    /\ Report("BlissExpected")
    /\ pc' = "ci"
    /\ UNCHANGED <<inputs, assigned, selvars, tgi_by_group, civars, bootvars>>

\* lines 230-234
BlissMissing ==
    /\ pc = "bliss"
    /\ ~(drugA_group \in DOMAIN tgi_by_group /\ drugB_group \in DOMAIN tgi_by_group)
    /\ Report("InsufficientSynergyData")
    /\ pc' = "ci"
    /\ UNCHANGED <<inputs, assigned, selvars, tgivars, civars, bootvars>>

(***************************************************************************)
(* Combination index (lines 245-312).                                      *)
(***************************************************************************)
\* line 245 reads day_df, which only line 183 assigns: NameError otherwise
CINameError ==
    /\ pc = "ci"
    /\ "day_df" \notin assigned
    /\ pc' = "crashed"
    /\ UNCHANGED <<inputs, out, assigned, selvars, tgivars, civars, bootvars>>

\* lines 245-246
CINoCombo ==
    /\ pc = "ci"
    /\ "day_df" \in assigned
    /\ ComboPrecheckFails(GroupsOf(day_df))
    /\ Report("NoComboGroup")
    /\ pc' = "done"
    /\ UNCHANGED <<inputs, assigned, selvars, tgivars, civars, bootvars>>

\* the means lines 264-267 fetch; .get gives None for a group without rows
CIMeansMissing(mbg, combo) ==
    \/ drugA_group \notin DOMAIN mbg
    \/ drugB_group \notin DOMAIN mbg
    \/ combo \notin DOMAIN mbg

\* lines 248-270: combo group found or not, then one of the three refusals
CIRefused ==
    /\ pc = "ci"
    /\ "day_df" \in assigned
    /\ ~ComboPrecheckFails(GroupsOf(day_df))
    /\ LET combo == DetectCombo(GroupsOf(day_df))
           mbg == MeanByGroup(day_df)
       IN  /\ combo_group' = combo
           /\ \/ combo = NoGroup
              \/ control_group \notin DOMAIN mbg
              \/ CIMeansMissing(mbg, combo)
           /\ Report(IF combo = NoGroup THEN "ComboNotFound"
                     ELSE IF control_group \notin DOMAIN mbg THEN "CINoControl"
                     ELSE "IncompleteComboData")
    /\ assigned' = assigned \cup {"combo_group"}
    /\ pc' = "done"
    /\ UNCHANGED <<inputs, selvars, tgivars, TGI_combo, CI, bootvars>>

\* lines 248-312: the point CI, then the bootstrap is set up
CICompute ==
    /\ pc = "ci"
    /\ "day_df" \in assigned
    /\ ~ComboPrecheckFails(GroupsOf(day_df))
    /\ LET combo == DetectCombo(GroupsOf(day_df))
           mbg == MeanByGroup(day_df)
       IN  /\ combo # NoGroup
           /\ control_group \in DOMAIN mbg
           /\ ~CIMeansMissing(mbg, combo)
           /\ combo_group' = combo
           /\ LET TGI_A == TGIFraction(mbg[drugA_group], mbg[control_group])
                  TGI_B == TGIFraction(mbg[drugB_group], mbg[control_group])
                  TGI_c == TGIFraction(mbg[combo], mbg[control_group])
              IN  /\ TGI_combo' = TGI_c
                  /\ CI' \in FDivRounded(Bliss(TGI_A, TGI_B), TGI_c,
                                        ExactQuotient(mbg[drugA_group], mbg[control_group])
                                        /\ ExactQuotient(mbg[drugB_group], mbg[control_group]))
    /\ Report("CIValue")
    /\ CI_list' = <<>>
    /\ boot_i' = 0
    /\ assigned' = assigned \cup {"combo_group", "TGI_combo", "CI", "CI_list"}
    /\ pc' = "boot"
    /\ UNCHANGED <<inputs, selvars, tgivars, tC, CI_low, CI_high>>

(***************************************************************************)
(* Bootstrap (lines 314-348).                                              *)
(***************************************************************************)
\* lines 314-336: one iteration
BootIter ==
    /\ pc = "boot"
    /\ boot_i < n_boot
    /\ \E m_ctrl \in ResampledMeans(VolumesOf(day_df, control_group)),
          m_A \in ResampledMeans(VolumesOf(day_df, drugA_group)),
          m_B \in ResampledMeans(VolumesOf(day_df, drugB_group)),
          m_combo \in ResampledMeans(VolumesOf(day_df, combo_group)) :
        LET tA == TGIFraction(m_A, m_ctrl)
            tB == TGIFraction(m_B, m_ctrl)
            t == TGIFraction(m_combo, m_ctrl)
        IN  /\ tC' = t
            /\ CI_list' = IF Retained(t)
                          THEN Append(CI_list, FDiv(Bliss(tA, tB), t))
                          ELSE CI_list
    /\ boot_i' = boot_i + 1
    /\ UNCHANGED <<inputs, pc, out, assigned, selvars, tgivars, civars, CI_low, CI_high>>

\* lines 338-346
BootInterval ==
    /\ pc = "boot"
    /\ boot_i = n_boot
    /\ EnoughSamples(CI_list)
    /\ CI_low' = Percentile(CI_list, 1)
    /\ CI_high' = Percentile(CI_list, 39)
    /\ Report("BootstrapInterval")
    /\ assigned' = assigned \cup {"CI_low", "CI_high"}
    /\ pc' = "done"
    /\ UNCHANGED <<inputs, selvars, tgivars, civars, boot_i, tC, CI_list>>

\* lines 347-348
BootInsufficient ==
    /\ pc = "boot"
    /\ boot_i = n_boot
    /\ ~EnoughSamples(CI_list)
    /\ Report("InsufficientBootstrapSamples")
    /\ pc' = "done"
    /\ UNCHANGED <<inputs, assigned, selvars, tgivars, civars, bootvars>>

Next ==
    \/ NoData \/ SelectDay \/ NoTargetDay
    \/ TGINoControl \/ TGIDegenerate \/ TGICompute
    \/ BlissCompute \/ BlissMissing
    \/ CINameError \/ CINoCombo \/ CIRefused \/ CICompute
    \/ BootIter \/ BootInterval \/ BootInsufficient

Spec == Init /\ [][Next]_vars

(***************************************************************************)
(* Properties.  They are stated over the input table and the reports, not  *)
(* through the operators above.                                            *)
(***************************************************************************)
Reported(tag) == tag \in Range(out)
DayDefined == "earliest_day" \in assigned
T == endpoint_threshold
Vol(i) == filtered_df[i].volume
DayOf(i) == filtered_df[i].day
AllRows == 1..Len(filtered_df)

\* position p of mouse m's sorted rows is its first measurement at or above T
FirstCrossing(m, p) ==
    /\ p \in 1..Len(g_sorted[m])
    /\ Vol(g_sorted[m][p]) >= T
    /\ \A q \in 1..(p - 1) : Vol(g_sorted[m][q]) < T

\* the days that precede a first crossing that is not the first entry
CandidateDays ==
    {DayOf(g_sorted[x[1]][x[2] - 1]) :
        x \in {y \in (DOMAIN g_sorted) \X (1..Len(filtered_df)) :
                  y[2] > 1 /\ FirstCrossing(y[1], y[2])}}

\* each mouse's sorted rows are exactly its rows, in ascending day
SortedTimelines ==
    \A m \in DOMAIN g_sorted :
        /\ Range(g_sorted[m]) = {i \in AllRows : filtered_df[i].mouse_id = m}
        /\ Len(g_sorted[m]) = Cardinality(Range(g_sorted[m]))
        /\ \A p, q \in 1..Len(g_sorted[m]) :
              p < q => DayOf(g_sorted[m][p]) <= DayOf(g_sorted[m][q])

DistinctDays ==
    \A i, j \in AllRows :
        (i # j /\ filtered_df[i].mouse_id = filtered_df[j].mouse_id) => DayOf(i) # DayOf(j)

\* With distinct days, the same candidates without any sorting: the latest
\* day of the mouse before the earliest day it is at or above T.
CrossDays(m) == {DayOf(i) : i \in {j \in AllRows : filtered_df[j].mouse_id = m /\ Vol(j) >= T}}
DaysBefore(m, d) == {DayOf(i) : i \in {j \in AllRows : filtered_df[j].mouse_id = m /\ DayOf(j) < d}}
CandidateDaysByDay ==
    {Max(DaysBefore(m, Min(CrossDays(m)))) :
        m \in {k \in MiceOf(filtered_df) :
                  CrossDays(k) # {} /\ DaysBefore(k, Min(CrossDays(k))) # {}}}

\* C1: once the endpoint section has run, the Comparison Day is defined exactly
\* when some subject's first measurement at or above T (rows in ascending day
\* order) is not the first entry of its timeline, and it is then the minimum,
\* over those subjects, of the day of the measurement just before that one.
C1_ComparisonDayIsEarliestPrecedingDay ==
    (pc # "endpoint" /\ filtered_df # <<>>) =>
        /\ SortedTimelines
        /\ DayDefined <=> CandidateDays # {}
        /\ DayDefined =>
              /\ earliest_day \in CandidateDays
              /\ \A d \in CandidateDays : earliest_day <= d
        /\ DistinctDays => CandidateDays = CandidateDaysByDay

\* C1 witness: two subjects cross T after their first entry, with different
\* preceding days, and the earlier one was taken.
C1_Witness ==
    /\ DayDefined
    /\ Len(target_days) = 2
    /\ target_days[1] > target_days[2]
    /\ earliest_day = target_days[2]

\* C10: with distinct days per subject, a defined Comparison Day D is the day
\* of some filtered row, and a subject whose first recorded measurement is
\* below T is below T at all its measurements on or before D.
C10_NoEarlierCrossing ==
    (DayDefined /\ DistinctDays) =>
        /\ \E i \in AllRows : DayOf(i) = earliest_day
        /\ day_df # <<>>
        /\ \A i \in AllRows :
              (DayOf(i) <= earliest_day /\ Vol(i) >= T) =>
                  \E j \in AllRows :
                      /\ filtered_df[j].mouse_id = filtered_df[i].mouse_id
                      /\ \A k \in AllRows :
                            filtered_df[k].mouse_id = filtered_df[i].mouse_id
                                => DayOf(j) <= DayOf(k)
                      /\ Vol(j) >= T

\* C10 witness: days are distinct, D is defined after day 0, one subject is at
\* or above T from its first measurement on, the other stays below T up to D.
C10_Witness ==
    /\ DayDefined /\ DistinctDays
    /\ earliest_day > 0
    /\ \E i \in AllRows : DayOf(i) <= earliest_day /\ Vol(i) >= T
    /\ \E i, j \in AllRows :
          /\ filtered_df[i].mouse_id = filtered_df[j].mouse_id
          /\ DayOf(i) < DayOf(j) /\ DayOf(j) <= earliest_day
          /\ Vol(i) < T /\ Vol(j) < T

\* sums and counts of the filtered rows of group g on day d
RowsAt(g, d) == {i \in AllRows : filtered_df[i].group = g /\ DayOf(i) = d}
RECURSIVE VolSum(_)
VolSum(I) == IF I = {} THEN 0 ELSE LET i == Min(I) IN Vol(i) + VolSum(I \ {i})
ControlRows == RowsAt(control_group, earliest_day)
TGIStageDone == DayDefined /\ pc \notin {"endpoint", "tgi"}

\* C8: when the control group has rows at the Comparison Day with mean > 0,
\* the TGI Map has an entry for exactly the groups with a row that day, each
\* equal to (1 - group mean / control mean) x 100, unclamped; the control's
\* entry is 0.
C8_TGIMapOverPresentGroups ==
    (TGIStageDone /\ ControlRows # {} /\ VolSum(ControlRows) > 0) =>
        /\ DOMAIN tgi_by_group =
              {filtered_df[i].group : i \in {j \in AllRows : DayOf(j) = earliest_day}}
        /\ \A g \in DOMAIN tgi_by_group :
              LET I == RowsAt(g, earliest_day)
                  den == VolSum(ControlRows) * Cardinality(I)
                  num == 100 * (den - VolSum(I) * Cardinality(ControlRows))
              IN  /\ IsFinite(tgi_by_group[g])
                  /\ tgi_by_group[g].d > 0
                  /\ tgi_by_group[g].n * den = num * tgi_by_group[g].d
        /\ tgi_by_group[control_group] = Zero

\* C8 witness: the map is computed, one group has a negative entry, and a
\* group of the table has no row at the Comparison Day and no entry.
C8_Witness ==
    /\ TGIStageDone
    /\ Reported("TGITable")
    /\ \E g \in DOMAIN tgi_by_group : tgi_by_group[g].n < 0
    /\ \E g \in DOMAIN tgi_by_group : tgi_by_group[g].n > 0
    /\ \E i \in AllRows : filtered_df[i].group \notin DOMAIN tgi_by_group

Positive(x) == x.k \in {"fin", "inf"} /\ x.n > 0
Last(s) == s[Len(s)]

\* C7: a bootstrap iteration appends one value to the sample set if its
\* resampled TGI_combo > 0 and leaves the set alone otherwise; the retained
\* count never exceeds the iterations done, nor N; the interval is reported
\* if the retained count exceeds 10, and otherwise
\* InsufficientBootstrapSamples is reported and no interval is set.
C7_BootstrapRetention ==
    [][ /\ (pc = "boot" /\ boot_i' = boot_i + 1) =>
              IF Positive(tC')
              THEN /\ Len(CI_list') = Len(CI_list) + 1
                   /\ SubSeq(CI_list', 1, Len(CI_list)) = CI_list
                   /\ IsFinite(Last(CI_list'))
              ELSE CI_list' = CI_list
        /\ Len(CI_list') <= boot_i' /\ boot_i' <= n_boot'
        /\ (pc = "boot" /\ pc' = "done") =>
              /\ boot_i = n_boot
              /\ IF Len(CI_list) > 10
                 THEN /\ Last(out') = "BootstrapInterval"
                      /\ CI_low' # None /\ CI_high' # None
                      /\ FLe(CI_low', CI_high')
                 ELSE /\ Last(out') = "InsufficientBootstrapSamples"
                      /\ CI_low' = None /\ CI_high' = None
                      /\ ~Reported("BootstrapInterval")'
      ]_vars

\* C7 witness: all N iterations ran, some were retained and some skipped,
\* 10 or fewer were retained, and the run reported insufficient samples.
C7_Witness ==
    /\ pc = "done"
    /\ boot_i = n_boot
    /\ Len(CI_list) > 0
    /\ Len(CI_list) <= 10
    /\ Reported("InsufficientBootstrapSamples")
    /\ ~Reported("BootstrapInterval")

DownstreamReports ==
    {"TGITable", "BlissExpected", "CIValue", "BootstrapInterval",
     "InsufficientBootstrapSamples"}

\* C2: a run in which no Comparison Day is defined reports that, produces no
\* TGI, Bliss, CI or bootstrap output, and does not crash.
C2_NoDayRunFinishes ==
    (pc # "endpoint" /\ ~DayDefined) =>
        /\ Reported("NoData") \/ Reported("NoEndpointReached")
        /\ Range(out) \cap DownstreamReports = {}
        /\ pc # "crashed"

\* C3: when the combo group's TGI at the Comparison Day is exactly 0, no
\* infinite or NaN CI is produced or reported as the CI value, and the
\* bootstrap is not run.
C3_ZeroComboTGIGuarded ==
    ("TGI_combo" \in assigned /\ TGI_combo = Zero) =>
        /\ CI = None \/ IsFinite(CI)
        /\ ~Reported("CIValue")
        /\ pc # "boot" /\ boot_i = 0
        /\ ~Reported("BootstrapInterval") /\ ~Reported("InsufficientBootstrapSamples")

\* C4: when the control group has no row at the Comparison Day, or its mean
\* there is <= 0, the run reports it and computes no TGI Map, no Bliss
\* effect, no CI and no bootstrap interval.
C4_ControlFailureHaltsDependents ==
    (TGIStageDone /\ (ControlRows = {} \/ VolSum(ControlRows) <= 0)) =>
        /\ Reported("MissingControl") \/ Reported("DegenerateControl")
        /\ Range(out) \cap DownstreamReports = {}
        /\ DOMAIN tgi_by_group = {} /\ bliss_value = None
        /\ CI = None /\ pc # "boot"

GroupsAtDay == {filtered_df[i].group : i \in {j \in AllRows : DayOf(j) = earliest_day}}
PresentCandidates == {i \in 1..4 : <<"Combo", "A+B", "DrugAB", "AB">>[i] \in GroupsAtDay}

\* C5: the detected combo group is the first of Combo, A+B, DrugAB, AB
\* present at the Comparison Day, and the CI stage is skipped for lack of a
\* combo group only when none of the four is present.
C5_ComboIsFirstPresentCandidate ==
    (DayDefined /\ pc \in {"boot", "done"}) =>
        /\ PresentCandidates # {} =>
              /\ "combo_group" \in assigned
              /\ combo_group = <<"Combo", "A+B", "DrugAB", "AB">>[Min(PresentCandidates)]
        /\ (Reported("NoComboGroup") \/ Reported("ComboNotFound")) => PresentCandidates = {}

NobodyReaches == \A i \in AllRows : Vol(i) < T
\* some measurement is at or above T, but for no subject does one below T
\* come earlier
CrossingsOnlyAtFirstDay ==
    /\ ~NobodyReaches
    /\ \A i, j \in AllRows :
          (filtered_df[i].mouse_id = filtered_df[j].mouse_id /\ Vol(j) >= T /\ DayOf(i) < DayOf(j))
              => Vol(i) >= T

\* C6: on a non-empty table, the selector reports 'no endpoint' exactly when
\* no subject is ever at or above T, and a different 'no candidate' signal
\* exactly when some subject is but each first crossing is at the subject's
\* first recorded day.
C6_AbsenceSignalsDistinct ==
    (pc # "endpoint" /\ filtered_df # <<>> /\ DistinctDays) =>
        /\ Reported("NoEndpointReached") <=> NobodyReaches
        /\ Reported("NoValidCandidateDay") <=> CrossingsOnlyAtFirstDay

\* C9: a point CI value is reported only when the combo group's TGI at the
\* Comparison Day is strictly positive (stated for the runs whose TGI stage
\* succeeded, where the control mean is > 0 and TGI_combo is finite).
C9_PointCIOnlyForPositiveComboTGI ==
    (Reported("CIValue") /\ Reported("TGITable")) => Positive(TGI_combo)

====
